---- MODULE Spec2Model ----
(* Tower of Hanoi (src/ToH.py): the LinkedStack/Tower data structure, the   *)
(* HanoiSolver object with its move operation, the recursive auto-solver    *)
(* and the interactive play loop with replay.                               *)
EXTENDS Integers, Sequences, FiniteSets, TLC

(* ---------- bounds of the model ---------- *)
NegDisks == 1
MaxWidth == 5
MaxDisks == 3
MaxSteps == 8
MaxCalls == 2
RecLimit == 6

(* ---------- Position (enum) ---------- *)
Position == {"LEFT", "CENTER", "RIGHT"}

(* a disk is its width; None is the absent disk *)
None == 0

RECURSIVE Pow2(_)
Pow2(k) == IF k <= 0 THEN 1 ELSE 2 * Pow2(k - 1)

(* ---------- Disk ---------- *)
DiskLt(a, b) == a < b

(* ---------- LinkedStack: the node chain (read bottom to top) and _size ---------- *)
NewStack == [disks |-> << >>, size |-> 0]

is_empty(t) == t.disks = << >>

peek(t) == t.disks[Len(t.disks)]

stack_pop_keeps_size(t) == [disks |-> SubSeq(t.disks, 1, Len(t.disks) - 1), size |-> t.size]

stack_pop(t) == [disks |-> SubSeq(t.disks, 1, Len(t.disks) - 1), size |-> t.size - 1]

stack_push(t, d) == [disks |-> Append(t.disks, d), size |-> t.size + 1]

(* ---------- Tower.push: result tower and outcome ---------- *)
(* self.peek() > disk resolves to the reflected disk.__lt__(self.peek())    *)
tower_push_then_check(t, d) ==
    IF d = None THEN [tower |-> t, status |-> "value_error"]
    ELSE IF is_empty(t) \/ DiskLt(d, peek(t))
         THEN [tower |-> stack_push(t, d), status |-> "ok"]
         ELSE [tower |-> stack_push(t, d), status |-> "rule"]

tower_push(t, d) ==
    IF d = None THEN [tower |-> t, status |-> "value_error"]
    ELSE IF is_empty(t) \/ DiskLt(d, peek(t))
         THEN [tower |-> stack_push(t, d), status |-> "ok"]
         ELSE [tower |-> t, status |-> "rule"]

(* ---------- HanoiSolver.__init__ / replay reset: stack the disks on the left ---------- *)
RECURSIVE push_range(_, _)
push_range(t, width) ==
    IF width <= 0 THEN t ELSE push_range(tower_push(t, width).tower, width - 1)

new_towers(n) ==
    [p \in Position |-> IF p = "LEFT" THEN push_range(NewStack, n) ELSE NewStack]

(* ---------- HanoiSolver.move: towers, counter and outcome after the call ---------- *)
move_flipped_check(tw, st, source, destination) ==
    IF is_empty(tw[source])
    THEN [towers |-> tw, steps |-> st, status |-> "empty"]
    ELSE LET disk == peek(tw[source]) IN
         IF ~is_empty(tw[destination]) /\ peek(tw[destination]) > disk
         THEN [towers |-> tw, steps |-> st, status |-> "rule"]
         ELSE LET popped == [tw EXCEPT ![source] = stack_pop(@)]
                  pushed == tower_push(popped[destination], disk)
              IN  IF pushed.status = "ok"
                  THEN [towers |-> [popped EXCEPT ![destination] = pushed.tower],
                        steps |-> st + 1, status |-> "ok"]
                  ELSE [towers |-> popped, steps |-> st, status |-> "push"]

move_no_precheck(tw, st, source, destination) ==
    IF is_empty(tw[source])
    THEN [towers |-> tw, steps |-> st, status |-> "empty"]
    ELSE LET disk == peek(tw[source])
             popped == [tw EXCEPT ![source] = stack_pop(@)]
             pushed == tower_push(popped[destination], disk)
         IN  IF pushed.status = "ok"
             THEN [towers |-> [popped EXCEPT ![destination] = pushed.tower],
                   steps |-> st + 1, status |-> "ok"]
             ELSE [towers |-> popped, steps |-> st, status |-> "push"]

move_unchecked(tw, st, source, destination) ==
    IF is_empty(tw[source])
    THEN [towers |-> tw, steps |-> st, status |-> "empty"]
    ELSE LET disk == peek(tw[source])
             popped == [tw EXCEPT ![source] = stack_pop(@)]
         IN  [towers |-> [popped EXCEPT ![destination] = stack_push(@, disk)],
              steps |-> st + 1, status |-> "ok"]

move_no_pop(tw, st, source, destination) ==
    IF is_empty(tw[source])
    THEN [towers |-> tw, steps |-> st, status |-> "empty"]
    ELSE LET disk == peek(tw[source]) IN
         IF ~is_empty(tw[destination]) /\ peek(tw[destination]) < disk
         THEN [towers |-> tw, steps |-> st, status |-> "rule"]
         ELSE LET pushed == tower_push(tw[destination], disk)
              IN  IF pushed.status = "ok"
                  THEN [towers |-> [tw EXCEPT ![destination] = pushed.tower],
                        steps |-> st + 1, status |-> "ok"]
                  ELSE [towers |-> tw, steps |-> st, status |-> "push"]

move_le_check(tw, st, source, destination) ==
    IF is_empty(tw[source])
    THEN [towers |-> tw, steps |-> st, status |-> "empty"]
    ELSE LET disk == peek(tw[source]) IN
         IF ~is_empty(tw[destination]) /\ peek(tw[destination]) <= disk
         THEN [towers |-> tw, steps |-> st, status |-> "rule"]
         ELSE LET popped == [tw EXCEPT ![source] = stack_pop(@)]
                  pushed == tower_push(popped[destination], disk)
              IN  IF pushed.status = "ok"
                  THEN [towers |-> [popped EXCEPT ![destination] = pushed.tower],
                        steps |-> st + 1, status |-> "ok"]
                  ELSE [towers |-> popped, steps |-> st, status |-> "push"]

move(tw, st, source, destination) ==
    IF is_empty(tw[source])
    THEN [towers |-> tw, steps |-> st, status |-> "empty"]
    ELSE LET disk == peek(tw[source]) IN
         IF ~is_empty(tw[destination]) /\ peek(tw[destination]) < disk
         THEN [towers |-> tw, steps |-> st, status |-> "rule"]
         ELSE LET popped == [tw EXCEPT ![source] = stack_pop(@)]
                  pushed == tower_push(popped[destination], disk)
              IN  IF pushed.status = "ok"
                  THEN [towers |-> [popped EXCEPT ![destination] = pushed.tower],
                        steps |-> st + 1, status |-> "ok"]
                  ELSE [towers |-> popped, steps |-> st, status |-> "push"]

(* ---------- HanoiSolver._parse_tower ---------- *)
Inputs == {"L", "C", "R", "Q", "X"}

parse_ok(s) == s \in {"L", "C", "R"}

parse_tower(s) == IF s = "L" THEN "LEFT" ELSE IF s = "C" THEN "CENTER" ELSE "RIGHT"

(* ---------- state ---------- *)
VARIABLES
    num_disks,  \* HanoiSolver.num_disks
    towers,     \* HanoiSolver.left / center / right
    steps,      \* HanoiSolver.steps
    psteps,     \* the local steps of play()
    pc,         \* "idle", "solve", "prompt", "retry", "crashed"
    stack,      \* the active solve_towers calls, innermost last, each with its state at entry
    err,        \* the exception that ended the program, "none" otherwise
    last,       \* the move call made by the latest step: outcome, source, destination
    out,        \* the message play() printed in the latest step, "none" if none
    moves,      \* history: successful move calls since construction or tower reset
    hist,       \* history: the methods called on the solver so far
    tower,      \* a Tower object used on its own, outside any solver
    call        \* the call made on that tower by the latest step: operation, disk, outcome

vars == <<num_disks, towers, steps, psteps, pc, stack, err, last, out, moves, hist,
          tower, call>>

NoCall == [op |-> "none", disk |-> None, status |-> "none"]

NoMove == [status |-> "none", src |-> "-", dst |-> "-"]

MoveEvent(r, s, d) == [status |-> r.status, src |-> s, dst |-> d]

Init ==
    /\ num_disks \in (0 - NegDisks)..MaxDisks
    /\ towers = new_towers(num_disks)
    /\ steps = 0
    /\ psteps = 0
    /\ pc = "idle"
    /\ stack = << >>
    /\ err = "none"
    /\ last = NoMove
    /\ out = "none"
    /\ moves = 0
    /\ hist = << >>
    /\ tower = NewStack
    /\ call = NoCall

(* ---------- solve() ---------- *)
SolveBegin_new_towers ==
    /\ pc = "idle"
    /\ Len(hist) < MaxCalls
    /\ hist' = Append(hist, "solve")
    /\ steps' = 0
    /\ towers' = new_towers(num_disks)
    /\ stack' = <<[n |-> num_disks, start |-> "LEFT", temp |-> "CENTER",
                   end |-> "RIGHT", at |-> "enter",
                   entry |-> [towers |-> new_towers(num_disks), steps |-> 0]]>>
    /\ pc' = "solve"
    /\ last' = NoMove
    /\ out' = "none"
    /\ UNCHANGED <<tower, call, num_disks, psteps, err, moves>>

SolveBegin ==
    /\ pc = "idle"
    /\ Len(hist) < MaxCalls
    /\ hist' = Append(hist, "solve")
    /\ steps' = 0
    /\ stack' = <<[n |-> num_disks, start |-> "LEFT", temp |-> "CENTER",
                   end |-> "RIGHT", at |-> "enter",
                   entry |-> [towers |-> towers, steps |-> 0]]>>
    /\ pc' = "solve"
    /\ last' = NoMove
    /\ out' = "none"
    /\ UNCHANGED <<tower, call, num_disks, towers, psteps, err, moves>>

Top == stack[Len(stack)]

Caller == SubSeq(stack, 1, Len(stack) - 1)

(* the move of a solve_towers call: on success the call goes on at `next`  *)
(* (or returns when next = "ret"); a failure raises out of solve()          *)
SolveMoveAt(next) ==
    LET f == Top
        r == move(towers, steps, f.start, f.end)
    IN  /\ towers' = r.towers
        /\ steps' = r.steps
        /\ last' = MoveEvent(r, f.start, f.end)
        /\ IF r.status = "ok"
           THEN /\ moves' = moves + 1
                /\ stack' = IF next = "ret" THEN Caller
                            ELSE Append(Caller, [f EXCEPT !.at = next])
                /\ pc' = IF stack' = << >> THEN "idle" ELSE "solve"
                /\ err' = err
           ELSE /\ moves' = moves
                /\ stack' = << >>
                /\ pc' = "crashed"
                /\ err' = r.status
        /\ out' = "none"
        /\ UNCHANGED <<tower, call, num_disks, psteps, hist>>

(* a recursive call; beyond the interpreter's recursion limit it raises *)
SolveCallWith(callee, resume) ==
    /\ IF Len(stack) < RecLimit
       THEN /\ stack' = Append(Append(Caller, [Top EXCEPT !.at = resume]), callee)
            /\ pc' = "solve"
            /\ err' = err
       ELSE /\ stack' = << >>
            /\ pc' = "crashed"
            /\ err' = "recursion"
    /\ last' = NoMove
    /\ out' = "none"
    /\ UNCHANGED <<tower, call, num_disks, towers, steps, psteps, moves, hist>>

(* the towers and the counter a solve_towers call finds when it is entered *)
AtEntry == [towers |-> towers, steps |-> steps]

first_call_swapped(f) ==
    [n |-> f.n - 1, start |-> f.start, temp |-> f.temp, end |-> f.end, at |-> "enter",
     entry |-> AtEntry]

first_call(f) ==
    [n |-> f.n - 1, start |-> f.start, temp |-> f.end, end |-> f.temp, at |-> "enter",
     entry |-> AtEntry]

second_call_to_start(f) ==
    [n |-> f.n - 1, start |-> f.temp, temp |-> f.end, end |-> f.start, at |-> "enter",
     entry |-> AtEntry]

second_call_swapped(f) ==
    [n |-> f.n - 1, start |-> f.start, temp |-> f.temp, end |-> f.end, at |-> "enter",
     entry |-> AtEntry]

second_call(f) ==
    [n |-> f.n - 1, start |-> f.temp, temp |-> f.start, end |-> f.end, at |-> "enter",
     entry |-> AtEntry]

base_case_at_most_one(n) == n <= 1

base_case(n) == n = 1

SolveBase ==
    /\ pc = "solve"
    /\ Top.at = "enter"
    /\ base_case(Top.n)
    /\ SolveMoveAt("ret")

SolveFirstCall ==
    /\ pc = "solve"
    /\ Top.at = "enter"
    /\ ~base_case(Top.n)
    /\ SolveCallWith(first_call(Top), "mid")

SolveMiddleMove ==
    /\ pc = "solve"
    /\ Top.at = "mid"
    /\ SolveMoveAt("second")

SolveSecondCall ==
    /\ pc = "solve"
    /\ Top.at = "second"
    /\ SolveCallWith(second_call(Top), "ret")

SolveReturn ==
    /\ pc = "solve"
    /\ Top.at = "ret"
    /\ stack' = Caller
    /\ pc' = IF stack' = << >> THEN "idle" ELSE "solve"
    /\ last' = NoMove
    /\ out' = "none"
    /\ UNCHANGED <<tower, call, num_disks, towers, steps, psteps, err, moves, hist>>

(* ---------- play() ---------- *)
PlayBegin ==
    /\ pc = "idle"
    /\ Len(hist) < MaxCalls
    /\ hist' = Append(hist, "play")
    /\ psteps' = 0
    /\ out' = "welcome"
    /\ pc' = "prompt"
    /\ last' = NoMove
    /\ UNCHANGED <<tower, call, num_disks, towers, steps, stack, err, moves>>

solved_test == towers["RIGHT"].size = num_disks

(* the inner loop's guard fails: congratulation, then the retry prompt *)
PlaySolved ==
    /\ pc = "prompt"
    /\ solved_test
    /\ out' = "congrats"
    /\ pc' = "retry"
    /\ last' = NoMove
    /\ UNCHANGED <<tower, call, num_disks, towers, steps, psteps, stack, err, moves, hist>>

(* Q at the source prompt, or at the destination prompt *)
PlayQuit ==
    /\ pc = "prompt"
    /\ ~solved_test
    /\ \E src, dst \in Inputs : src = "Q" \/ dst = "Q"
    /\ out' = "gave_up"
    /\ pc' = "retry"
    /\ last' = NoMove
    /\ UNCHANGED <<tower, call, num_disks, towers, steps, psteps, stack, err, moves, hist>>

(* KeyboardInterrupt / EOFError at a prompt of the inner loop *)
PlayInterrupt ==
    /\ pc = "prompt"
    /\ ~solved_test
    /\ out' = "exited"
    /\ pc' = "retry"
    /\ last' = NoMove
    /\ UNCHANGED <<tower, call, num_disks, towers, steps, psteps, stack, err, moves, hist>>

(* a selection that names no tower: _parse_tower raises ValueError, which   *)
(* neither try of play() catches                                            *)
PlayBadTower ==
    /\ pc = "prompt"
    /\ ~solved_test
    /\ \E src, dst \in Inputs \ {"Q"} : ~parse_ok(src) \/ ~parse_ok(dst)
    /\ pc' = "crashed"
    /\ err' = "value_error"
    /\ last' = NoMove
    /\ out' = "none"
    /\ UNCHANGED <<tower, call, num_disks, towers, steps, psteps, stack, moves, hist>>

PlayEmptySource ==
    /\ pc = "prompt"
    /\ ~solved_test
    /\ \E src, dst \in Inputs :
          /\ parse_ok(src) /\ parse_ok(dst)
          /\ is_empty(towers[parse_tower(src)])
    /\ out' = "source_empty"
    /\ last' = NoMove
    /\ UNCHANGED <<tower, call, num_disks, towers, steps, psteps, pc, stack, err, moves, hist>>

play_steps_always(ps, status) == ps + 1

play_steps(ps, status) == IF status = "ok" THEN ps + 1 ELSE ps

PlayMove ==
    /\ pc = "prompt"
    /\ ~solved_test
    /\ steps < MaxSteps
    /\ \E src, dst \in Inputs :
          /\ parse_ok(src) /\ parse_ok(dst)
          /\ ~is_empty(towers[parse_tower(src)])
          /\ LET s == parse_tower(src)
                 d == parse_tower(dst)
                 r == move(towers, steps, s, d)
             IN  /\ towers' = r.towers
                 /\ steps' = r.steps
                 /\ last' = MoveEvent(r, s, d)
                 /\ psteps' = play_steps(psteps, r.status)
                 /\ moves' = IF r.status = "ok" THEN moves + 1 ELSE moves
                 /\ out' = IF r.status = "ok" THEN "moved" ELSE "invalid_move"
    /\ UNCHANGED <<tower, call, num_disks, pc, stack, err, hist>>

(* "Y" at the retry prompt: new towers, then the next round's welcome and steps = 0 *)
RetryYes ==
    /\ pc = "retry"
    /\ towers' = new_towers(num_disks)
    /\ psteps' = 0
    /\ moves' = 0
    /\ out' = "welcome"
    /\ pc' = "prompt"
    /\ last' = NoMove
    /\ UNCHANGED <<tower, call, num_disks, steps, stack, err, hist>>

(* any other answer: play() returns *)
RetryNo ==
    /\ pc = "retry"
    /\ out' = "thanks"
    /\ psteps' = 0
    /\ pc' = "idle"
    /\ last' = NoMove
    /\ UNCHANGED <<tower, call, num_disks, towers, steps, stack, err, moves, hist>>

Next ==
    \/ SolveBegin
    \/ SolveBase
    \/ SolveFirstCall
    \/ SolveMiddleMove
    \/ SolveSecondCall
    \/ SolveReturn
    \/ PlayBegin
    \/ PlaySolved
    \/ PlayQuit
    \/ PlayInterrupt
    \/ PlayBadTower
    \/ PlayEmptySource
    \/ PlayMove
    \/ RetryYes
    \/ RetryNo

Spec == Init /\ [][Next]_vars

(* solve() runs synchronously to its end: no step of it waits on anything *)
SolveStep ==
    SolveBase \/ SolveFirstCall \/ SolveMiddleMove \/ SolveSecondCall \/ SolveReturn

FairSpec == Spec /\ WF_vars(SolveStep)

(* ---------- helpers of the properties ---------- *)
Descending(n) == [i \in 1..n |-> n + 1 - i]

StrictlyDecreasing(seq) == \A i \in 1..(Len(seq) - 1) : seq[i] > seq[i + 1]

Occurrences(w) ==
    Cardinality({<<p, i>> \in Position \X (1..MaxDisks + 1) :
                     i <= Len(towers[p].disks) /\ towers[p].disks[i] = w})

TotalDisks ==
    Len(towers["LEFT"].disks) + Len(towers["CENTER"].disks) + Len(towers["RIGHT"].disks)

FreshSolve == hist = <<"solve">> /\ num_disks >= 1

SolvedConfiguration ==
    /\ towers["RIGHT"].disks = Descending(num_disks)
    /\ towers["RIGHT"].size = num_disks
    /\ is_empty(towers["LEFT"])
    /\ is_empty(towers["CENTER"])

InitialConfiguration ==
    /\ towers["LEFT"].disks = Descending(num_disks)
    /\ towers["LEFT"].size = Len(Descending(num_disks))
    /\ towers["CENTER"] = NewStack
    /\ towers["RIGHT"] = NewStack

(* ---------- a Tower used directly: push and pop with any disk ---------- *)
solver == <<num_disks, towers, steps, psteps, pc, stack, err, last, out, moves, hist>>

TowerInit ==
    /\ num_disks = 0
    /\ towers = new_towers(0)
    /\ steps = 0
    /\ psteps = 0
    /\ pc = "idle"
    /\ stack = << >>
    /\ err = "none"
    /\ last = NoMove
    /\ out = "none"
    /\ moves = 0
    /\ hist = << >>
    /\ tower = NewStack
    /\ call = NoCall

TowerPush ==
    /\ \E d \in {None} \cup (1..MaxWidth) :
          LET r == tower_push(tower, d)
          IN  /\ tower' = r.tower
              /\ call' = [op |-> "push", disk |-> d, status |-> r.status]
    /\ UNCHANGED solver

TowerPop ==
    /\ IF is_empty(tower)
       THEN /\ tower' = tower
            /\ call' = [op |-> "pop", disk |-> None, status |-> "index_error"]
       ELSE /\ tower' = stack_pop(tower)
            /\ call' = [op |-> "pop", disk |-> peek(tower), status |-> "ok"]
    /\ UNCHANGED solver

TowerNext ==
    \/ TowerPush
    \/ TowerPop

TowerSpec == TowerInit /\ [][TowerNext]_vars

(* C1: for every n >= 1, solve() on a freshly constructed solver terminates, *)
(* and when it has ended it has returned normally after exactly 2^n - 1      *)
(* successful moves with all n disks on the right tower, left and center     *)
(* empty and right.size == num_disks.                                        *)
C1_SolveResult ==
    /\ [](FreshSolve /\ pc \in {"idle", "crashed"} =>
            /\ pc = "idle"
            /\ steps = Pow2(num_disks) - 1
            /\ moves = Pow2(num_disks) - 1
            /\ SolvedConfiguration
            /\ solved_test)
    /\ (FreshSolve /\ pc = "solve") ~> (FreshSolve /\ pc = "idle")

C1_Witness ==
    /\ hist = <<"solve">> /\ pc = "idle" /\ num_disks = 3
    /\ steps = 7 /\ towers["RIGHT"].disks = <<3, 2, 1>>

(* C2: in every reachable state each of the three towers holds its disks in *)
(* strictly decreasing width from bottom to top.                            *)
C2_TowersSorted == \A p \in Position : StrictlyDecreasing(towers[p].disks)

C2_Witness ==
    /\ last.status = "rule"
    /\ Len(towers["CENTER"].disks) >= 2
    /\ Len(towers["RIGHT"].disks) >= 1

(* C3: after every move call, successful or rejected, the disks of the three *)
(* towers together are exactly the widths 1..num_disks, each exactly once.   *)
C3_DisksConserved ==
    /\ \A w \in 1..num_disks : Occurrences(w) = 1
    /\ \A p \in Position : \A i \in 1..Len(towers[p].disks) :
          towers[p].disks[i] \in 1..num_disks

C3_Witness ==
    /\ last.status = "rule"
    /\ num_disks = 3
    /\ \A p \in Position : ~is_empty(towers[p])

(* C4: a move call that fails (empty source, larger disk on smaller, or an   *)
(* error of the pop or push inside move) leaves the three towers and the     *)
(* move counter as they were before the call.                                *)
C4_FailedMoveNoChange ==
    [][last'.status \in {"empty", "rule", "push"} =>
          towers' = towers /\ steps' = steps]_vars

C4_Witness ==
    /\ last.status = "rule"
    /\ out = "invalid_move"
    /\ last.src = "LEFT" /\ last.dst = "RIGHT"
    /\ steps >= 2

(* C5: in every state reached by legal moves from the initial configuration *)
(* of n disks, if the right tower holds all n disks then at least 2^n - 1   *)
(* successful moves have been made.                                         *)
C5_MinimumMoves ==
    (num_disks >= 1 /\ towers["RIGHT"].size = num_disks) =>
        moves >= Pow2(num_disks) - 1

C5_Witness ==
    /\ out = "congrats" /\ num_disks = 3 /\ psteps = 7 /\ moves = 7
    /\ hist = <<"play">>

(* C6: for n = 3 the auto-solve of a fresh solver applies exactly the moves *)
(* L->R, L->C, R->C, L->R, C->L, C->R, L->R in that order and ends with     *)
(* Left=[], Center=[], Right=[3,2,1] and the move counter at 7.             *)
ExpectedMoves ==
    << <<"LEFT", "RIGHT">>, <<"LEFT", "CENTER">>, <<"RIGHT", "CENTER">>,
       <<"LEFT", "RIGHT">>, <<"CENTER", "LEFT">>, <<"CENTER", "RIGHT">>,
       <<"LEFT", "RIGHT">> >>

C6_ThreeDiskSequence ==
    (hist = <<"solve">> /\ num_disks = 3) =>
        /\ last.status # "none" =>
              /\ last.status = "ok"
              /\ steps \in 1..7
              /\ <<last.src, last.dst>> = ExpectedMoves[steps]
        /\ pc \in {"idle", "crashed"} =>
              /\ pc = "idle"
              /\ steps = 7
              /\ towers["LEFT"].disks = << >>
              /\ towers["CENTER"].disks = << >>
              /\ towers["RIGHT"].disks = <<3, 2, 1>>

C6_Witness ==
    /\ hist = <<"solve">> /\ num_disks = 3 /\ steps = 5
    /\ last = [status |-> "ok", src |-> "CENTER", dst |-> "LEFT"]

(* C7: in every reachable state the move counter HanoiSolver.steps equals   *)
(* the number of successful move calls since construction or since the most *)
(* recent reset of the towers.                                              *)
C7_CounterCountsMoves == steps = moves

(* C8: the replay reset of play() restores the exact initial configuration  *)
(* and zeroes the move counter.                                             *)
C8_ReplayResets ==
    [][pc = "retry" /\ pc' = "prompt" =>
          InitialConfiguration' /\ steps' = 0]_vars

(* C9: during solve() on a fresh solver with n >= 1 no move issued by       *)
(* solve_towers is rejected: at every move the source tower is non-empty    *)
(* and the destination is empty or has a larger top disk.                   *)
AboutToMove ==
    /\ pc = "solve"
    /\ \/ Top.at = "enter" /\ Top.n = 1
       \/ Top.at = "mid"

C9_SolveNeverRejected ==
    FreshSolve =>
        /\ last.status \in {"none", "ok"}
        /\ pc # "crashed"
        /\ AboutToMove =>
              /\ ~is_empty(towers[Top.start])
              /\ \/ is_empty(towers[Top.end])
                 \/ peek(towers[Top.end]) > peek(towers[Top.start])

C9_Witness ==
    /\ FreshSolve /\ AboutToMove /\ Top.at = "mid"
    /\ ~is_empty(towers[Top.end])
    /\ steps >= 1

(* C10: in interactive play a move request rejected because the source is   *)
(* empty or because it would put a larger disk on a smaller one leaves the  *)
(* towers and both step counters unchanged, and the loop goes on to a new   *)
(* source prompt.                                                           *)
C10_RejectedRequest ==
    [][(pc = "prompt" /\ out' \in {"source_empty", "invalid_move"}) =>
          /\ towers' = towers
          /\ steps' = steps
          /\ psteps' = psteps
          /\ pc' = "prompt"
          /\ err' = "none"]_vars

C10_Witness ==
    /\ out = "invalid_move" /\ pc = "prompt" /\ last.status = "rule"
    /\ psteps >= 1

C10_WitnessEmpty ==
    /\ out = "source_empty" /\ pc = "prompt" /\ psteps >= 1

(* C11: a round of interactive play ends only when all disks are on the     *)
(* right tower or the user quits (Q, interrupt, EOF); any other input, also *)
(* one that names no tower, is a rejected selection and the loop goes on.   *)
C11_RoundEndsOnlyOnQuitOrSolved ==
    [][(pc = "prompt" /\ pc' # "prompt") =>
          \/ solved_test /\ out' = "congrats"
          \/ out' \in {"gave_up", "exited"}]_vars

(* C14: a successful move(A, B) between two different towers removes        *)
(* exactly the top disk of A and makes it the new top of B, adds exactly 1  *)
(* to the move counter, and leaves the third tower and the disks below the  *)
(* moved one unchanged.                                                     *)
C14_MoveEffect ==
    [][(last'.status = "ok" /\ last'.src # last'.dst) =>
          LET a == last'.src
              b == last'.dst
          IN  /\ ~is_empty(towers[a])
              /\ towers'[a].disks = SubSeq(towers[a].disks, 1, Len(towers[a].disks) - 1)
              /\ towers'[a].size = towers[a].size - 1
              /\ towers'[b].disks = Append(towers[b].disks, peek(towers[a]))
              /\ towers'[b].size = towers[b].size + 1
              /\ \A p \in Position \ {a, b} : towers'[p] = towers[p]
              /\ steps' = steps + 1]_vars

C14_Witness ==
    /\ last.status = "ok" /\ last.src = "CENTER" /\ last.dst = "RIGHT"
    /\ Len(towers["RIGHT"].disks) >= 2
    /\ ~is_empty(towers["CENTER"])

(* C15: in every reachable state of a solver with num_disks >= 1 the solved *)
(* test right.size == num_disks is true iff the left and center towers are  *)
(* both empty, and iff the right tower holds num_disks..1 bottom to top.    *)
C15_SolvedTestEquivalences ==
    num_disks >= 1 =>
        /\ solved_test <=> (is_empty(towers["LEFT"]) /\ is_empty(towers["CENTER"]))
        /\ solved_test <=> (towers["RIGHT"].disks = Descending(num_disks))

C15_Witness ==
    /\ num_disks = 3 /\ solved_test /\ pc = "retry" /\ out = "congrats"
    /\ towers["RIGHT"].disks = <<3, 2, 1>>
    /\ psteps = 8

(* C17: move(P, P) with the same non-empty tower as source and destination  *)
(* succeeds in every reachable state: all towers end with the contents they *)
(* had, and the move counter and play's step count go up by 1.              *)
C17_SelfMove ==
    /\ [](\A p \in Position : ~is_empty(towers[p]) =>
             LET r == move(towers, steps, p, p)
             IN  r.status = "ok" /\ r.towers = towers /\ r.steps = steps + 1)
    /\ [][(last'.status # "none" /\ last'.src = last'.dst) =>
             /\ last'.status = "ok"
             /\ towers' = towers
             /\ steps' = steps + 1
             /\ psteps' = psteps + 1
             /\ moves' = moves + 1]_vars

C17_Witness ==
    /\ last.status = "ok" /\ last.src = "CENTER" /\ last.dst = "CENTER"
    /\ Len(towers["CENTER"].disks) >= 2
    /\ pc = "prompt" /\ psteps >= 2

(* C18: solve() does not reset the towers: a second solve() on a solver     *)
(* with num_disks >= 1 whose first solve() completed fails at its first     *)
(* attempted move with the empty-source error, changes no tower and leaves  *)
(* the move counter at 0.                                                   *)
SecondSolve == hist = <<"solve", "solve">> /\ num_disks >= 1

C18_SecondSolveFails ==
    /\ [](SecondSolve =>
            /\ SolvedConfiguration
            /\ steps = 0
            /\ last.status \in {"none", "empty"}
            /\ pc \in {"solve", "crashed"}
            /\ pc = "crashed" =>
                  /\ err = "empty"
                  /\ last.status = "empty"
                  /\ last.src = "LEFT")
    /\ (SecondSolve /\ pc = "solve") ~> (SecondSolve /\ pc = "crashed")

C18_Witness ==
    /\ hist = <<"solve", "solve">> /\ num_disks = 3
    /\ pc = "crashed" /\ err = "empty" /\ steps = 0
    /\ towers["RIGHT"].disks = <<3, 2, 1>>

(* C19: for a solver constructed with num_disks <= 0, solve() never reaches *)
(* the base case: it recurses with n decreasing by one per call, applies no *)
(* move and never returns normally (it ends only when the recursion depth   *)
(* is exhausted).                                                           *)
InSolveCall == hist # << >> /\ hist[Len(hist)] = "solve"

C19_NonPositiveDiverges ==
    /\ []((num_disks <= 0 /\ InSolveCall) =>
            /\ pc \in {"solve", "crashed"}
            /\ last.status = "none"
            /\ moves = 0 /\ steps = 0
            /\ towers = new_towers(0)
            /\ pc = "crashed" => err = "recursion"
            /\ pc = "solve" =>
                  \A i \in 1..Len(stack) :
                      /\ stack[i].n = num_disks - (i - 1)
                      /\ stack[i].at = IF i = Len(stack) THEN "enter" ELSE "mid")
    /\ [][(num_disks <= 0 /\ pc = "solve" /\ pc' = "solve") =>
             Len(stack') = Len(stack) + 1]_vars

C19_Witness ==
    /\ num_disks = 0 /\ hist = <<"solve">> /\ pc = "solve"
    /\ Len(stack) = RecLimit /\ Top.n = 1 - RecLimit

C19_WitnessCrash ==
    /\ num_disks = 0 - NegDisks /\ pc = "crashed" /\ err = "recursion"

(* C16: every call solve_towers(k, s, t, e) made during solve() on a fresh  *)
(* solver is entered with the disks 1..k as the top k disks of s, and       *)
(* returns after exactly 2^k - 1 moves with those k disks as the top k      *)
(* disks of e and every disk wider than k on the tower and at the position  *)
(* it had at entry.                                                         *)
TopDisks(seq, k) == SubSeq(seq, Len(seq) - k + 1, Len(seq))

HoldsOnTop(seq, k) == Len(seq) >= k /\ TopDisks(seq, k) = Descending(k)

WiderThan(seq, k) == {<<i, seq[i]>> : i \in {j \in 1..Len(seq) : seq[j] > k}}

CallReturns == pc = "solve" /\ pc' # "crashed" /\ Len(stack') = Len(stack) - 1

C16_RecursiveCalls ==
    /\ []((hist = <<"solve">> /\ pc = "solve" /\ Top.at = "enter") =>
            /\ Top.entry = AtEntry
            /\ HoldsOnTop(towers[Top.start].disks, Top.n))
    /\ [][(hist = <<"solve">> /\ CallReturns) =>
            /\ steps' = Top.entry.steps + Pow2(Top.n) - 1
            /\ HoldsOnTop(towers'[Top.end].disks, Top.n)
            /\ \A p \in Position :
                  WiderThan(towers'[p].disks, Top.n) =
                      WiderThan(Top.entry.towers[p].disks, Top.n)]_vars

C16_Witness ==
    /\ hist = <<"solve">> /\ num_disks = 3 /\ pc = "solve"
    /\ Len(stack) = 1 /\ Top.at = "mid"
    /\ steps = 3 /\ towers["CENTER"].disks = <<2, 1>>
    /\ towers["LEFT"].disks = <<3>>

(* C12: Tower.push(disk) fails if disk is None, fails if the tower is       *)
(* non-empty and its top disk's width is smaller than disk's width, and in  *)
(* every other case (tower empty, or top width not smaller than disk's)     *)
(* adds disk on top of the tower.                                           *)
C12_PushOutcome ==
    [][call'.op = "push" =>
          IF call'.disk = None THEN call'.status # "ok"
          ELSE IF ~is_empty(tower) /\ peek(tower) < call'.disk THEN call'.status # "ok"
          ELSE /\ call'.status = "ok"
               /\ tower'.disks = Append(tower.disks, call'.disk)]_vars

(* C13: every Tower.push call that fails (None disk, or disk larger than    *)
(* the current top) leaves the tower's disk sequence and its size counter   *)
(* exactly as before the call.                                              *)
C13_FailedPushNoChange ==
    [][(call'.op = "push" /\ call'.status # "ok") =>
          /\ tower'.disks = tower.disks
          /\ tower'.size = tower.size]_vars

C13_Witness ==
    /\ call.op = "push" /\ call.status = "rule"
    /\ Len(tower.disks) >= 2 /\ tower.size >= 2
    /\ call.disk > peek(tower)

C13_WitnessNone ==
    /\ call.op = "push" /\ call.status = "value_error" /\ call.disk = None
    /\ ~is_empty(tower)

====
